---- MODULE Spec2Model ----
(***************************************************************************)
(* A model of pytorch_quantum/functional.py: the einsum-based application  *)
(* of a gate matrix to a state tensor (apply_unitary_einsum), the          *)
(* dispatcher that installs the result on the device (gate_wrapper), the   *)
(* table of constant gate matrices (mat_dict) and the parametric matrix    *)
(* generators (rx_matrix ... crx_matrix).                                  *)
(*                                                                         *)
(* Numbers are exact.  An amplitude is a Gaussian integer [re, im]; a      *)
(* tensor is [shape, data]: data is the row-major flattening of the array  *)
(* (as torch stores a contiguous tensor).  Angles are whole multiples of   *)
(* pi, whose half-angle cosines and sines are 0, 1 and -1.                 *)
(***************************************************************************)
EXTENDS Integers, Sequences, FiniteSets, TLC

VARIABLES
    heap,       \* the tensors alive in memory: object id -> tensor
    states,     \* q_device.states: the id of the tensor the device holds
    old_ref,    \* a reference to an earlier device state kept by the caller (0: none)
    old_val,    \* the contents read through old_ref when it was taken
    call,       \* the call in hand: its arguments, the matrix it used, how it ended
    pc,         \* "idle", "called" (arguments chosen) or "done" (the call has ended)
    ncalls      \* the number of calls made since old_ref was taken

vars == <<heap, states, old_ref, old_val, call, pc, ncalls>>

(***************************************************************************)
(* Bounds of the model.                                                    *)
(***************************************************************************)
\* The capacity of the symbol alphabet, len(ABC).  ABC is imported from
\* macro.py (line 9), which fixes its value; every formula below is stated
\* for an arbitrary capacity.
ABCLen == 7
\* The largest number of qubits of a device on which gate sequences are run.
MaxQubits == 3
\* The largest batch size of a device or of a parameter array.
MaxBatch == 2

(***************************************************************************)
(* Complex arithmetic on Gaussian integers.                                *)
(***************************************************************************)
Cx(a, b) == [re |-> a, im |-> b]
CZero == Cx(0, 0)
COne == Cx(1, 0)
CI == Cx(0, 1)
CAdd(x, y) == Cx(x.re + y.re, x.im + y.im)
CMul(x, y) == Cx(x.re * y.re - x.im * y.im, x.re * y.im + x.im * y.re)
CNeg(x) == Cx(-x.re, -x.im)
CConj(x) == Cx(x.re, -x.im)

Pow2(k) == 2 ^ k

Min(a, b) == IF a < b THEN a ELSE b

RECURSIVE Prod(_)
Prod(s) == IF s = <<>> THEN 1 ELSE Head(s) * Prod(Tail(s))

Numel(shape) == Prod(shape)

Twos(m) == [i \in 1 .. m |-> 2]

\* The 0-based row-major offset of the multi-index idx in an array of this shape.
RECURSIVE Offset(_, _)
Offset(shape, idx) ==
    IF shape = <<>> THEN 0
    ELSE Head(idx) * Prod(Tail(shape)) + Offset(Tail(shape), Tail(idx))

\* The multi-index of the 0-based row-major offset off.
RECURSIVE Unflatten(_, _)
Unflatten(shape, off) ==
    IF shape = <<>> THEN <<>>
    ELSE LET inner == Prod(Tail(shape))
         IN  <<off \div inner>> \o Unflatten(Tail(shape), off % inner)

\* The sequence s with its elements evaluated (s \o <<>> = s).
List(s) == s \o <<>>

Tensor(shape, data) == [shape |-> List(shape), data |-> List(data)]

At(t, idx) == t.data[Offset(t.shape, idx) + 1]

\* No tensor (None).
NoTensor == Tensor(<<0>>, <<>>)

(***************************************************************************)
(* The symbol alphabet.  A symbol is its 1-based position in ABC; a string *)
(* of symbols is a sequence.                                               *)
(***************************************************************************)
ABC == [i \in 1 .. ABCLen |-> i]

\* ABC[-1]
ABCLast == ABC[Len(ABC)]

\* Python's s[lo:hi] for 0 <= lo <= hi: clipped to the string's length.
Slice(s, lo, hi) == SubSeq(s, lo + 1, Min(hi, Len(s)))

\* ch in s
InStr(ch, s) == \E i \in 1 .. Len(s) : s[i] = ch

\* s.replace(old, new) for single symbols: every occurrence is replaced.
Replace(s, old, new) == [i \in 1 .. Len(s) |-> IF s[i] = old THEN new ELSE s[i]]

\* ABC_ARRAY[list(wires)]: numpy's integer-array indexing.  An index in
\* [-len, -1] counts from the end; anything outside [-len, len) is an IndexError.
ArrayIndexable(wires) ==
    \A i \in 1 .. Len(wires) : wires[i] >= -Len(ABC) /\ wires[i] < Len(ABC)

ABC_ARRAY(w) == IF w >= 0 THEN ABC[w + 1] ELSE ABC[Len(ABC) + w + 1]

(***************************************************************************)
(* torch.reshape and torch.einsum.                                         *)
(***************************************************************************)
Ok(t) == [ok |-> TRUE, err |-> "", value |-> t]
Err(e) == [ok |-> FALSE, err |-> e, value |-> NoTensor]

\* torch.reshape(t, shape): the same flat data under a new shape, or a
\* RuntimeError when the number of elements differs.
CanReshape(t, shape) == Numel(shape) = Numel(t.shape)
Reshape(t, shape) == Tensor(shape, t.data)

FirstPos(s, ch) == CHOOSE i \in 1 .. Len(s) : s[i] = ch /\ \A j \in 1 .. i - 1 : s[j] # ch

\* The symbols of s in order of first occurrence, those of keep left out.
RECURSIVE UniqueNotIn(_, _)
UniqueNotIn(s, keep) ==
    IF s = <<>> THEN <<>>
    ELSE LET rest == UniqueNotIn(Tail(s), keep \o <<Head(s)>>)
         IN  IF InStr(Head(s), keep) THEN rest ELSE <<Head(s)>> \o rest

\* f[lo] + ... + f[hi]
RECURSIVE CSum(_, _, _)
CSum(f, lo, hi) == IF lo > hi THEN CZero ELSE CAdd(f[lo], CSum(f, lo + 1, hi))

\* The row-major strides of an array of this shape.
Strides(shape) == List([i \in 1 .. Len(shape) |-> Prod(SubSeq(shape, i + 1, Len(shape)))])

\* The size of the axis a symbol names, read off the operands.
LabelDim(l, lm, ls, mat, state) ==
    IF InStr(l, lm) THEN mat.shape[FirstPos(lm, l)] ELSE state.shape[FirstPos(ls, l)]

\* What torch.einsum requires of "lm,ls->lo": one symbol per axis of each
\* operand, one size per symbol, and an output of distinct symbols that occur
\* in the operands.
EinsumWellFormed(lm, ls, lo, mat, state) ==
    /\ Len(lm) = Len(mat.shape)
    /\ Len(ls) = Len(state.shape)
    /\ \A i \in 1 .. Len(lm) : mat.shape[i] = LabelDim(lm[i], lm, ls, mat, state)
    /\ \A i \in 1 .. Len(ls) : state.shape[i] = LabelDim(ls[i], lm, ls, mat, state)
    /\ \A i \in 1 .. Len(lo) : InStr(lo[i], lm \o ls)
    /\ \A i, j \in 1 .. Len(lo) : lo[i] = lo[j] => i = j

\* An operand's flat offset is a sum over its axes; axis i reads digit src[i]
\* of the output offset (src[i].out) or of the offset among the summed
\* symbols.  PartOffset is the part of the sum that the offset x of the one
\* kind (out) decides.
RECURSIVE PartOffset(_, _, _, _)
PartOffset(src, x, out, i) ==
    IF i > Len(src) THEN 0
    ELSE (IF src[i].out = out THEN ((x \div src[i].div) % src[i].mod) * src[i].mul ELSE 0)
         + PartOffset(src, x, out, i + 1)

\* torch.einsum("lm,ls->lo", mat, state): every output entry is the sum, over
\* all values of the symbols absent from the output, of the product of the two
\* operands' entries; a symbol repeated within an operand reads its diagonal.
Einsum(lm, ls, lo, mat, state) ==
    LET dim(l) == LabelDim(l, lm, ls, mat, state)
        summed == UniqueNotIn(lm \o ls, lo)
        oshape == List([i \in 1 .. Len(lo) |-> dim(lo[i])])
        sshape == List([i \in 1 .. Len(summed) |-> dim(summed[i])])
        ostr == Strides(oshape)
        sstr == Strides(sshape)
        source(l, mul) ==
            IF InStr(l, lo)
            THEN [out |-> TRUE, div |-> ostr[FirstPos(lo, l)], mod |-> dim(l), mul |-> mul]
            ELSE [out |-> FALSE, div |-> sstr[FirstPos(summed, l)], mod |-> dim(l), mul |-> mul]
        mstr == Strides(mat.shape)
        ststr == Strides(state.shape)
        msrc == List([i \in 1 .. Len(lm) |-> source(lm[i], mstr[i])])
        ssrc == List([i \in 1 .. Len(ls) |-> source(ls[i], ststr[i])])
        nout == Numel(oshape)
        nsum == Numel(sshape)
        mat_o == List([o \in 1 .. nout |-> PartOffset(msrc, o - 1, TRUE, 1)])
        mat_s == List([x \in 1 .. nsum |-> PartOffset(msrc, x - 1, FALSE, 1)])
        state_o == List([o \in 1 .. nout |-> PartOffset(ssrc, o - 1, TRUE, 1)])
        state_s == List([x \in 1 .. nsum |-> PartOffset(ssrc, x - 1, FALSE, 1)])
        entry(o) ==
            CSum([x \in 1 .. nsum |->
                     CMul(mat.data[mat_o[o] + mat_s[x] + 1],
                          state.data[state_o[o] + state_s[x] + 1])],
                 1, nsum)
    IN  Tensor(oshape, [o \in 1 .. nout |-> entry(o)])

(***************************************************************************)
(* apply_unitary_einsum(state, mat, wires)                                 *)
(***************************************************************************)
\* line 18
total_wires(state) == Len(state.shape) - 1

\* lines 20, 32
is_batch_unitary(mat) == Len(mat.shape) > 2

\* lines 23, 33
shape_extension(mat) == IF is_batch_unitary(mat) THEN <<mat.shape[1]>> ELSE <<>>

\* line 40
state_indices(n) == Slice(ABC, 0, n)

\* A variant that takes the wires in ascending order.
affected_indices_sorted(wires) ==
    LET sorted == SortSeq(wires, <)
    IN  [i \in 1 .. Len(sorted) |-> ABC_ARRAY(sorted[i])]

\* line 43
affected_indices(wires) == [i \in 1 .. Len(wires) |-> ABC_ARRAY(wires[i])]

\* line 47
new_indices(n, k) == Slice(ABC, n, n + k)

\* lines 51-56: functools.reduce over zip(affected_indices, new_indices), which
\* stops at the shorter of the two.
RECURSIVE ReduceReplace(_, _, _)
ReduceReplace(old_string, aff, new) ==
    IF aff = <<>> \/ new = <<>> THEN old_string
    ELSE ReduceReplace(Replace(old_string, Head(aff), Head(new)), Tail(aff), Tail(new))

new_state_indices(n, wires) ==
    ReduceReplace(state_indices(n), affected_indices(wires), new_indices(n, Len(wires)))

\* A variant that looks for the reserved symbol among the state's symbols only.
IndexAssertion_StateOnly(n, wires) == ~InStr(ABCLast, state_indices(n))

\* lines 60-61: the reserved last symbol is not in use.
IndexAssertion(n, wires) ==
    ~InStr(ABCLast, state_indices(n) \o new_state_indices(n, wires)
                    \o new_indices(n, Len(wires)) \o affected_indices(wires))

\* A variant that names the matrix's input axes before its output axes.
MatIndices_Transposed(mat, n, wires) ==
    (IF is_batch_unitary(mat) THEN <<ABCLast>> ELSE <<>>)
        \o affected_indices(wires) \o new_indices(n, Len(wires))

\* lines 66-74: the three index strings of the einsum expression.
MatIndices(mat, n, wires) ==
    (IF is_batch_unitary(mat) THEN <<ABCLast>> ELSE <<>>)
        \o new_indices(n, Len(wires)) \o affected_indices(wires)

StateIndices(n) == <<ABCLast>> \o state_indices(n)

NewStateIndices(n, wires) == <<ABCLast>> \o new_state_indices(n, wires)

apply_unitary_einsum(state, mat, wires) ==
    LET n == total_wires(state)
        shape == shape_extension(mat) \o Twos(2 * Len(wires))
        m == Reshape(mat, shape)
        lm == MatIndices(mat, n, wires)
        ls == StateIndices(n)
        lo == NewStateIndices(n, wires)
    IN  IF is_batch_unitary(mat) /\ state.shape[1] # mat.shape[1]
            THEN Err("AssertionError: batch size")
        ELSE IF ~CanReshape(mat, shape) THEN Err("RuntimeError: reshape")
        ELSE IF ~ArrayIndexable(wires) THEN Err("IndexError")
        ELSE IF ~IndexAssertion(n, wires) THEN Err("AssertionError: too many qubit")
        ELSE IF ~EinsumWellFormed(lm, ls, lo, m, state) THEN Err("RuntimeError: einsum")
        ELSE Ok(Einsum(lm, ls, lo, m, state))

(***************************************************************************)
(* The constant gate matrices of mat_dict.  hadamard, t and sx have        *)
(* entries that are no Gaussian integers and are left out.                 *)
(***************************************************************************)
RECURSIVE Concat(_)
Concat(rows) == IF rows = <<>> THEN <<>> ELSE Head(rows) \o Concat(Tail(rows))

\* torch.tensor(rows, dtype=C_DTYPE) of a list of rows of real numbers
RealMatrix(rows) ==
    LET flat == Concat(rows)
    IN  Tensor(<<Len(rows), Len(rows[1])>>, [i \in 1 .. Len(flat) |-> Cx(flat[i], 0)])

\* torch.tensor(rows, dtype=C_DTYPE) of a list of rows of complex numbers
ComplexMatrix(rows) == Tensor(<<Len(rows), Len(rows[1])>>, Concat(rows))

paulix == RealMatrix(<< <<0, 1>>,
                        <<1, 0>> >>)

pauliy == ComplexMatrix(<< <<CZero, Cx(0, -1)>>,
                           <<Cx(0, 1), CZero>> >>)

pauliz == RealMatrix(<< <<1, 0>>,
                        <<0, -1>> >>)

s_gate == ComplexMatrix(<< <<COne, CZero>>,
                           <<CZero, Cx(0, 1)>> >>)

cnot == RealMatrix(<< <<1, 0, 0, 0>>,
                      <<0, 1, 0, 0>>,
                      <<0, 0, 0, 1>>,
                      <<0, 0, 1, 0>> >>)

cz == RealMatrix(<< <<1, 0, 0, 0>>,
                    <<0, 1, 0, 0>>,
                    <<0, 0, 1, 0>>,
                    <<0, 0, 0, -1>> >>)

cy == ComplexMatrix(<< <<COne, CZero, CZero, CZero>>,
                       <<CZero, COne, CZero, CZero>>,
                       <<CZero, CZero, CZero, Cx(0, -1)>>,
                       <<CZero, CZero, Cx(0, -1), CZero>> >>)

swap == RealMatrix(<< <<1, 0, 0, 0>>,
                      <<0, 0, 1, 0>>,
                      <<0, 1, 0, 0>>,
                      <<0, 0, 0, 1>> >>)

cswap == RealMatrix(<< <<1, 0, 0, 0, 0, 0, 0, 0>>,
                       <<0, 1, 0, 0, 0, 0, 0, 0>>,
                       <<0, 0, 1, 0, 0, 0, 0, 0>>,
                       <<0, 0, 0, 1, 0, 0, 0, 0>>,
                       <<0, 0, 0, 0, 1, 0, 0, 0>>,
                       <<0, 0, 0, 0, 0, 0, 1, 0>>,
                       <<0, 0, 0, 0, 0, 1, 0, 0>>,
                       <<0, 0, 0, 0, 0, 0, 0, 1>> >>)

toffoli == RealMatrix(<< <<1, 0, 0, 0, 0, 0, 0, 0>>,
                         <<0, 1, 0, 0, 0, 0, 0, 0>>,
                         <<0, 0, 1, 0, 0, 0, 0, 0>>,
                         <<0, 0, 0, 1, 0, 0, 0, 0>>,
                         <<0, 0, 0, 0, 1, 0, 0, 0>>,
                         <<0, 0, 0, 0, 0, 1, 0, 0>>,
                         <<0, 0, 0, 0, 0, 0, 0, 1>>,
                         <<0, 0, 0, 0, 0, 0, 1, 0>> >>)

\* The table's constant entries, by key.
mat_dict ==
    [paulix |-> paulix, pauliy |-> pauliy, pauliz |-> pauliz, s |-> s_gate,
     cnot |-> cnot, cz |-> cz, cy |-> cy, swap |-> swap,
     cswap |-> cswap, toffoli |-> toffoli]

ConstantGates == DOMAIN mat_dict

\* The table's callable entries.
CallableGates == {"rx", "ry", "rz", "phaseshift", "rot", "multirz", "crx"}

(***************************************************************************)
(* The torch operations the generators use.  A real parameter tensor holds *)
(* angles as whole multiples of pi: the entry k stands for k * pi.         *)
(***************************************************************************)
\* cos(k * pi / 2) and sin(k * pi / 2)
CosHalf(k) == <<1, 0, -1, 0>>[(k % 4) + 1]
SinHalf(k) == <<0, 1, 0, -1>>[(k % 4) + 1]

MapT(t, F(_)) == Tensor(t.shape, [i \in 1 .. Len(t.data) |-> F(t.data[i])])
ZipT(a, b, F(_, _)) == Tensor(a.shape, [i \in 1 .. Len(a.data) |-> F(a.data[i], b.data[i])])

\* torch.cos(theta / 2), torch.sin(theta / 2), 1j * torch.sin(-theta / 2)
TCosHalf(theta) == MapT(theta, LAMBDA k : Cx(CosHalf(k), 0))
TSinHalf(theta) == MapT(theta, LAMBDA k : Cx(SinHalf(k), 0))
TJSinMinusHalf(theta) == MapT(theta, LAMBDA k : CMul(CI, Cx(SinHalf(-k), 0)))
\* torch.exp(-0.5j * theta), torch.exp(0.5j * theta), torch.exp(1j * phi)
TExpMinusHalf(theta) == MapT(theta, LAMBDA k : Cx(CosHalf(k), -SinHalf(k)))
TExpPlusHalf(theta) == MapT(theta, LAMBDA k : Cx(CosHalf(k), SinHalf(k)))
TExp(phi) == MapT(phi, LAMBDA k : Cx(CosHalf(2 * k), SinHalf(2 * k)))
TNeg(t) == MapT(t, CNeg)
TConj(t) == MapT(t, CConj)
TMul(a, b) == ZipT(a, b, CMul)
TPlus(a, b) == ZipT(a, b, LAMBDA x, y : x + y)
TMinus(a, b) == ZipT(a, b, LAMBDA x, y : x - y)
\* torch.zeros(shape), torch.ones(shape)
TZeros(shape) == Tensor(shape, [i \in 1 .. Numel(shape) |-> CZero])
TOnes(shape) == Tensor(shape, [i \in 1 .. Numel(shape) |-> COne])

\* torch.cat([a, b], dim=-1)
Cat(a, b) ==
    LET r == Len(a.shape)
        la == a.shape[r]
        shape == [a.shape EXCEPT ![r] = la + b.shape[r]]
        entry(idx) == IF idx[r] < la THEN At(a, idx)
                      ELSE At(b, [idx EXCEPT ![r] = idx[r] - la])
    IN  Tensor(shape, [o \in 1 .. Numel(shape) |-> entry(Unflatten(shape, o - 1))])

\* torch.stack([a, b], dim=-1): the new last axis numbers the stacked tensors.
Stack(a, b) ==
    LET r == Len(a.shape)
        shape == a.shape \o <<2>>
        entry(idx) == IF idx[r + 1] = 0 THEN At(a, SubSeq(idx, 1, r))
                      ELSE At(b, SubSeq(idx, 1, r))
    IN  Tensor(shape, [o \in 1 .. Numel(shape) |-> entry(Unflatten(shape, o - 1))])

\* A variant that keeps the first axis.
Squeeze0_Kept(t) == t

\* t.squeeze(0): the first axis is dropped if its size is 1.
Squeeze0(t) == IF t.shape # <<>> /\ t.shape[1] = 1 THEN Tensor(Tail(t.shape), t.data) ELSE t

\* t.unsqueeze(-1)
UnsqueezeLast(t) == Tensor(t.shape \o <<1>>, t.data)

\* t.unsqueeze(0).repeat(b, 1, 1) of a matrix t
RepeatBatch(t, b) ==
    Tensor(<<b>> \o t.shape, [i \in 1 .. b * Len(t.data) |-> t.data[((i - 1) % Len(t.data)) + 1]])

\* params[:, j] of a two-dimensional tensor
Column(t, j) == Tensor(<<t.shape[1]>>, [b \in 1 .. t.shape[1] |-> At(t, <<b - 1, j>>)])

(***************************************************************************)
(* The parametric generators.                                              *)
(***************************************************************************)
rx_matrix(params) ==
    LET co == TCosHalf(params)
        jsi == TJSinMinusHalf(params)
    IN  Squeeze0(Stack(Cat(co, jsi), Cat(jsi, co)))

ry_matrix(params) ==
    LET co == TCosHalf(params)
        si == TSinHalf(params)
    IN  Squeeze0(Stack(Cat(co, TNeg(si)), Cat(si, co)))

rz_matrix(params) ==
    LET q == TExpMinusHalf(params)
    IN  Squeeze0(Stack(Cat(q, TZeros(q.shape)), Cat(TZeros(q.shape), TConj(q))))

phaseshift_matrix(params) ==
    LET q == TExp(params)
    IN  Squeeze0(Stack(Cat(TOnes(q.shape), TZeros(q.shape)), Cat(TZeros(q.shape), q)))

rot_matrix(params) ==
    LET phi == UnsqueezeLast(Column(params, 0))
        theta == UnsqueezeLast(Column(params, 1))
        omega == UnsqueezeLast(Column(params, 2))
        co == TCosHalf(theta)
        si == TSinHalf(theta)
    IN  Squeeze0(Stack(
            Cat(TMul(TExpMinusHalf(TPlus(phi, omega)), co),
                TNeg(TMul(TExpPlusHalf(TMinus(phi, omega)), si))),
            Cat(TMul(TExpMinusHalf(TMinus(phi, omega)), si),
                TMul(TExpPlusHalf(TPlus(phi, omega)), co))))

\* utils.pauli_eigs(n_wires): the eigenvalues of the n-fold tensor product of
\* Pauli-Z, by basis bitstring: +1 for an even number of ones, -1 for an odd.
RECURSIVE PopCount(_)
PopCount(b) == IF b = 0 THEN 0 ELSE (b % 2) + PopCount(b \div 2)

pauli_eigs(n_wires) == [e \in 1 .. Pow2(n_wires) |-> IF PopCount(e - 1) % 2 = 0 THEN 1 ELSE -1]

\* utils.diag(x) of a (batch, d) tensor: the (batch, d, d) tensor of diagonal matrices.
diag(x) ==
    LET shape == <<x.shape[1], x.shape[2], x.shape[2]>>
        entry(idx) == IF idx[2] = idx[3] THEN At(x, <<idx[1], idx[2]>>) ELSE CZero
    IN  Tensor(shape, [o \in 1 .. Numel(shape) |-> entry(Unflatten(shape, o - 1))])

\* exp(-1j * theta / 2 * eigs): theta of shape (batch, 1) broadcast against eigs.
multirz_eigvals(params, n_wires) ==
    LET eigs == pauli_eigs(n_wires)
        shape == <<params.shape[1], Len(eigs)>>
        entry(idx) == LET k == At(params, <<idx[1], 0>>) * eigs[idx[2] + 1]
                      IN  Cx(CosHalf(k), -SinHalf(k))
    IN  Tensor(shape, [o \in 1 .. Numel(shape) |-> entry(Unflatten(shape, o - 1))])

multirz_matrix(params, n_wires) == Squeeze0(diag(multirz_eigvals(params, n_wires)))

crx_matrix(params) ==
    LET co == TCosHalf(params)
        jsi == TJSinMinusHalf(params)
        base == RepeatBatch(RealMatrix(<< <<1, 0, 0, 0>>,
                                          <<0, 1, 0, 0>>,
                                          <<0, 0, 0, 0>>,
                                          <<0, 0, 0, 0>> >>), co.shape[1])
        entry(idx) ==
            IF idx[2] = 2 /\ idx[3] = 2 THEN At(co, <<idx[1], 0>>)
            ELSE IF idx[2] = 2 /\ idx[3] = 3 THEN At(jsi, <<idx[1], 0>>)
            ELSE IF idx[2] = 3 /\ idx[3] = 2 THEN At(jsi, <<idx[1], 0>>)
            ELSE IF idx[2] = 3 /\ idx[3] = 3 THEN At(co, <<idx[1], 0>>)
            ELSE At(base, idx)
    IN  Squeeze0(Tensor(base.shape,
                        [o \in 1 .. Numel(base.shape) |-> entry(Unflatten(base.shape, o - 1))]))

(***************************************************************************)
(* gate_wrapper(mat, q_device, wires, params, n_wires)                     *)
(***************************************************************************)
\* A wires argument is an int or a list of ints.
IntWire(w) == [is_int |-> TRUE, int |-> w]
ListWires(ws) == [is_int |-> FALSE, list |-> ws]

\* line 96
NormalizeWires(wires) == IF wires.is_int THEN <<wires.int>> ELSE wires.list

\* line 85
NormalizeParams(params) == IF Len(params.shape) = 1 THEN UnsqueezeLast(params) ELSE params

\* mat(params) and mat(params, n_wires) for the table's callable entries
CallGenerator(gate, params, n_wires) ==
    CASE gate = "rx" -> rx_matrix(params)
      [] gate = "ry" -> ry_matrix(params)
      [] gate = "rz" -> rz_matrix(params)
      [] gate = "phaseshift" -> phaseshift_matrix(params)
      [] gate = "rot" -> rot_matrix(params)
      [] gate = "crx" -> crx_matrix(params)
      [] gate = "multirz" -> multirz_matrix(params, n_wires)

\* lines 84-93: the matrix gate_wrapper hands to apply_unitary_einsum
GateMatrix(gate, params, n_wires) ==
    IF gate \in CallableGates
    THEN CallGenerator(gate, NormalizeParams(params), n_wires)
    ELSE mat_dict[gate]

\* The lowest object id not in use.
NewId(h) == CHOOSE i \in 1 .. Cardinality(DOMAIN h) + 1 :
                i \notin DOMAIN h /\ \A j \in 1 .. i - 1 : j \in DOMAIN h

\* A variant that writes the result into the tensor the device holds.
InstallStates_InPlace(h, ref, r) ==
    IF r.ok THEN [heap |-> [h EXCEPT ![ref] = r.value], states |-> ref]
    ELSE [heap |-> h, states |-> ref]

\* A variant that binds q_device.states whether or not the call succeeded.
InstallStates_Always(h, ref, r) ==
    [heap |-> h @@ (NewId(h) :> r.value), states |-> NewId(h)]

\* torch.einsum returns a tensor of its own, and line 98 binds q_device.states
\* to it; an exception leaves the assignment undone.
InstallStates(h, ref, r) ==
    IF r.ok THEN [heap |-> h @@ (NewId(h) :> r.value), states |-> NewId(h)]
    ELSE [heap |-> h, states |-> ref]

\* A caller's arguments for gate_wrapper; n_wires = 0 stands for None.
Args(gate, wires, params, n_wires) ==
    [gate |-> gate, wires |-> wires, params |-> params, n_wires |-> n_wires,
     matrix |-> NoTensor, err |-> ""]

NoCall == Args("", ListWires(<<>>), NoTensor, 0)

\* The whole of gate_wrapper, run on the arguments in call.
GateWrapper ==
    /\ pc = "called"
    /\ LET matrix == GateMatrix(call.gate, call.params, call.n_wires)
           state == heap[states]
           wires == NormalizeWires(call.wires)
           r == apply_unitary_einsum(state, matrix, wires)
           inst == InstallStates(heap, states, r)
       IN  /\ heap' = inst.heap
           /\ states' = inst.states
           /\ call' = [call EXCEPT !.matrix = matrix, !.err = r.err]
    /\ pc' = "done"
    /\ ncalls' = ncalls + 1
    /\ UNCHANGED <<old_ref, old_val>>

\* The caller keeps a reference to the tensor the device holds and calls
\* gate_wrapper with these arguments.
Call(args) ==
    /\ pc = "idle"
    /\ old_ref' = states
    /\ old_val' = heap[states]
    /\ call' = args
    /\ pc' = "called"
    /\ ncalls' = 0
    /\ UNCHANGED <<heap, states>>

\* The call has ended; the caller drops its reference, and the tensors no
\* reference reaches are freed.
Return ==
    /\ pc = "done"
    /\ pc' = "idle"
    /\ call' = NoCall
    /\ old_ref' = 0
    /\ old_val' = NoTensor
    /\ heap' = [id \in {states} |-> heap[id]]
    /\ ncalls' = 0
    /\ UNCHANGED states

(***************************************************************************)
(* The inputs the specifications draw.                                     *)
(***************************************************************************)
\* The lists of k distinct elements of S, in every order.
RECURSIVE Inj(_, _)
Inj(k, S) ==
    IF k = 0 THEN {<<>>}
    ELSE UNION {{<<x>> \o w : w \in Inj(k - 1, S \ {x})} : x \in S}

\* A state tensor of bsz computational basis states of n qubits: batch element
\* j (from 0) is the basis state numbered (b + j * step) mod 2^n.
BasisState(n, bsz, b, step) ==
    Tensor(<<bsz>> \o Twos(n),
           [i \in 1 .. bsz * Pow2(n) |->
               IF (i - 1) % Pow2(n) = (b + ((i - 1) \div Pow2(n)) * step) % Pow2(n)
               THEN COne ELSE CZero])

\* A state tensor whose amplitudes are all different.
GenericState(n, bsz) ==
    Tensor(<<bsz>> \o Twos(n), [i \in 1 .. bsz * Pow2(n) |-> Cx(i, 2 * i + 1)])

\* A 2^k x 2^k matrix, and a batch of them, whose entries are all different.
GenericMatrix(k) ==
    Tensor(<<Pow2(k), Pow2(k)>>, [i \in 1 .. Pow2(k) * Pow2(k) |-> Cx(i, 1)])

GenericBatchMatrix(bsz, k) ==
    Tensor(<<bsz, Pow2(k), Pow2(k)>>, [i \in 1 .. bsz * Pow2(k) * Pow2(k) |-> Cx(i, 1)])

\* The number of wires a constant gate acts on: its matrix is 2^k x 2^k.
Arity(gate) == CHOOSE k \in 1 .. 3 : Pow2(k) = mat_dict[gate].shape[1]

\* wires is a list of distinct qubits of an n-qubit device.
ValidWires(wires, n) ==
    /\ \A i \in 1 .. Len(wires) : wires[i] >= 0 /\ wires[i] < n
    /\ \A i, j \in 1 .. Len(wires) : wires[i] = wires[j] => i = j

\* A parameter array of B rows of `width` angles: row r (from 0), column c
\* holds the angle (a + r + c) * pi.  A width of 0 is a one-dimensional array.
ParamArray(B, width, a) ==
    IF width = 0 THEN Tensor(<<B>>, [i \in 1 .. B |-> a + i - 1])
    ELSE Tensor(<<B, width>>,
                [i \in 1 .. B * width |-> a + ((i - 1) \div width) + ((i - 1) % width)])

\* B rows of the angle 0.
ZeroParams(B) == Tensor(<<B>>, [i \in 1 .. B |-> 0])

(***************************************************************************)
(* Spec: a device on which a caller runs gate after gate.  The gates are   *)
(* the permutation constants and rx at angle 0, so that the device stays   *)
(* in computational basis states; the calls include the ones that fail.    *)
(***************************************************************************)
PermGates == {"paulix", "cnot", "swap", "toffoli", "cswap"}

\* A wire that makes the call fail: the reserved last symbol, or no symbol.
BadWires == {-1, ABCLen}

DeviceCalls(n) ==
    \* the gate's number of distinct wires, in every order
    {Args(g, ListWires(w), NoTensor, 0) : g \in {g \in PermGates : Arity(g) = 1}, w \in Inj(1, 0 .. n - 1)}
    \cup {Args(g, ListWires(w), NoTensor, 0) : g \in {g \in PermGates : Arity(g) = 2}, w \in Inj(2, 0 .. n - 1)}
    \cup {Args(g, ListWires(w), NoTensor, 0) : g \in {g \in PermGates : Arity(g) = 3}, w \in Inj(3, 0 .. n - 1)}
    \* a single wire given as an int
    \cup {Args("paulix", IntWire(w), NoTensor, 0) : w \in 0 .. n - 1}
    \* a number of wires the matrix does not fit
    \cup {Args(g, ListWires(w), NoTensor, 0) : g \in {g \in PermGates : Arity(g) # 1}, w \in Inj(1, 0 .. n - 1)}
    \cup {Args(g, ListWires(w), NoTensor, 0) : g \in {g \in PermGates : Arity(g) # 2}, w \in Inj(2, 0 .. n - 1)}
    \* a wire that names the reserved symbol or none
    \cup {Args("paulix", ListWires(<<w>>), NoTensor, 0) : w \in BadWires}
    \cup {Args("cnot", ListWires(<<w, 0>>), NoTensor, 0) : w \in BadWires}
    \* rx at angle 0 with one parameter row per batch element
    \cup {Args("rx", ListWires(<<w>>), ZeroParams(B), 0) : w \in 0 .. n - 1, B \in 1 .. MaxBatch}

Init ==
    /\ \E n \in 1 .. MaxQubits, bsz \in 1 .. MaxBatch :
          \E b \in 0 .. Pow2(n) - 1 :
              heap = (1 :> BasisState(n, bsz, b, 0))
    /\ states = 1
    /\ old_ref = 0
    /\ old_val = NoTensor
    /\ call = NoCall
    /\ pc = "idle"
    /\ ncalls = 0

CallGate == \E args \in DeviceCalls(total_wires(heap[states])) : Call(args)

Next == CallGate \/ GateWrapper \/ Return

Spec == Init /\ [][Next]_vars

(***************************************************************************)
(* SpecEinsum: apply_unitary_einsum on inputs drawn at the start.          *)
(***************************************************************************)
Pending == Err("pending")

EinsumInput(state, mat, wires) ==
    [state |-> state, mat |-> mat, wires |-> wires, result |-> Pending]

\* Distinct in-range wires in every order, basis states that differ from one
\* batch element to the next, one matrix for all batch elements or one each.
ValidInputs ==
    UNION {UNION {UNION {
        {EinsumInput(BasisState(n, bsz, b, 1), m, w) :
            b \in 0 .. Pow2(n) - 1,
            m \in {GenericMatrix(k), GenericBatchMatrix(bsz, k)},
            w \in Inj(k, 0 .. n - 1)}
        : k \in 1 .. n} : bsz \in 1 .. MaxBatch} : n \in 1 .. MaxQubits}

\* Qubit counts up to the alphabet's capacity and beyond.
CapacityInputs ==
    UNION {UNION {
        {EinsumInput(BasisState(n, 1, 0, 0), m, [i \in 1 .. k |-> i - 1]) :
            m \in {GenericMatrix(k), GenericBatchMatrix(1, k)}}
        : k \in 1 .. Min(n, MaxQubits)} : n \in 1 .. ABCLen + 1}

\* Wires repeated or out of range.
WireValues(n) == (-1 .. n) \cup {ABCLen - 1, ABCLen}

InvalidWireInputs ==
    UNION {UNION {
        {EinsumInput(st, GenericMatrix(k), w) :
            st \in {BasisState(n, 1, 0, 0), GenericState(n, 1)},
            w \in {w \in [1 .. k -> WireValues(n)] : ~ValidWires(w, n)}}
        : k \in 1 .. 2} : n \in 1 .. MaxQubits}

InitEinsum ==
    /\ call \in ValidInputs \cup CapacityInputs \cup InvalidWireInputs
    /\ pc = "called"
    /\ heap = <<>>
    /\ states = 0
    /\ old_ref = 0
    /\ old_val = NoTensor
    /\ ncalls = 0

ApplyUnitaryEinsum ==
    /\ pc = "called"
    /\ call' = [call EXCEPT !.result = apply_unitary_einsum(call.state, call.mat, call.wires)]
    /\ pc' = "done"
    /\ UNCHANGED <<heap, states, old_ref, old_val, ncalls>>

NextEinsum == ApplyUnitaryEinsum

SpecEinsum == InitEinsum /\ [][NextEinsum]_vars

(***************************************************************************)
(* SpecRoundTrip: one constant gate run twice on the same wires of a       *)
(* device, the caller keeping a reference to the state it started from.    *)
(***************************************************************************)
SelfInverseGates ==
    {"paulix", "pauliy", "pauliz", "cnot", "cz", "cy", "swap", "cswap", "toffoli"}

RoundTripStates(n, bsz) ==
    {BasisState(n, bsz, b, 1) : b \in 0 .. Pow2(n) - 1} \cup {GenericState(n, bsz)}

RoundTripCalls(n) ==
    UNION {{Args(g, ListWires(w), NoTensor, 0) : w \in Inj(Arity(g), 0 .. n - 1)}
           : g \in SelfInverseGates}

InitRoundTrip ==
    /\ \E n \in 1 .. MaxQubits, bsz \in 1 .. MaxBatch :
          /\ \E st \in RoundTripStates(n, bsz) : heap = (1 :> st)
          /\ call \in RoundTripCalls(n)
    /\ states = 1
    /\ old_ref = 1
    /\ old_val = heap[1]
    /\ pc = "called"
    /\ ncalls = 0

\* The caller makes the same call a second time.
CallAgain ==
    /\ pc = "done"
    /\ ncalls = 1
    /\ pc' = "called"
    /\ UNCHANGED <<heap, states, old_ref, old_val, call, ncalls>>

NextRoundTrip == GateWrapper \/ CallAgain

SpecRoundTrip == InitRoundTrip /\ [][NextRoundTrip]_vars

(***************************************************************************)
(* SpecGen: one parametric gate dispatched on a device.                    *)
(***************************************************************************)
\* Parameter arrays of every batch size: one-dimensional, or two-dimensional
\* with one column.
AngleArrays ==
    {ParamArray(B, width, a) : B \in 1 .. MaxBatch, width \in 0 .. 1, a \in 0 .. 3}

\* The wire lists multirz is called with: every order of up to two wires, and
\* the first k wires in ascending order beyond that.
MultiRZWires(n, k) ==
    IF k <= 2 THEN Inj(k, 0 .. n - 1) ELSE {[i \in 1 .. k |-> i - 1]}

GenCalls(n) ==
    {Args(g, ListWires(<<w>>), q, 0) :
        g \in {"rx", "ry", "rz", "phaseshift"}, w \in 0 .. n - 1, q \in AngleArrays}
    \cup {Args("rot", ListWires(<<w>>), ParamArray(B, 3, a), 0) :
            w \in 0 .. n - 1, B \in 1 .. MaxBatch, a \in 0 .. 3}
    \cup {Args("crx", ListWires(w), ParamArray(B, 0, a), 0) :
            w \in Inj(2, 0 .. n - 1), B \in 1 .. MaxBatch, a \in 0 .. 3}
    \cup UNION {{Args("multirz", ListWires(w), ParamArray(B, 0, a), k) :
                    w \in MultiRZWires(n, k), B \in 1 .. MaxBatch, a \in 0 .. 3}
                : k \in 1 .. n}

InitGen ==
    /\ \E n \in 1 .. MaxQubits, bsz \in 1 .. MaxBatch :
          /\ \E b \in {0, Pow2(n) - 1} : heap = (1 :> BasisState(n, bsz, b, 0))
          /\ call \in GenCalls(n)
    /\ states = 1
    /\ old_ref = 1
    /\ old_val = heap[1]
    /\ pc = "called"
    /\ ncalls = 0

NextGen == GateWrapper

SpecGen == InitGen /\ [][NextGen]_vars

(***************************************************************************)
(* Reference definitions the claims are stated with.                       *)
(***************************************************************************)
\* Bit q of the basis index b of n qubits; qubit 0 is the most significant.
Bit(b, q, n) == (b \div Pow2(n - 1 - q)) % 2

SetBit(b, q, n, v) == b + (v - Bit(b, q, n)) * Pow2(n - 1 - q)

\* b with the bit at wires[i] replaced by bit i of a (bit 1 the most significant).
RECURSIVE ReplaceBits(_, _, _, _, _)
ReplaceBits(b, wires, a, n, i) ==
    IF i > Len(wires) THEN b
    ELSE ReplaceBits(SetBit(b, wires[i], n, Bit(a, i - 1, Len(wires))), wires, a, n, i + 1)

\* The number whose bits are b's bits at wires[1], ..., wires[k].
RECURSIVE GatherBits(_, _, _, _)
GatherBits(b, wires, n, i) ==
    IF i > Len(wires) THEN 0
    ELSE Bit(b, wires[i], n) * Pow2(Len(wires) - i) + GatherBits(b, wires, n, i + 1)

\* Entry (r, c) of the matrix for batch element beta.
MatEntry(mat, beta, r, c) ==
    IF Len(mat.shape) > 2 THEN At(mat, <<beta, r, c>>) ELSE At(mat, <<r, c>>)

\* The matrix tensored with identities on the other qubits, applied to every
\* batch element of the state reshaped to (batch, 2^n).
Embedded(state, mat, wires) ==
    LET n == Len(state.shape) - 1
        k == Len(wires)
        entry(beta, b) ==
            CSum([a \in 1 .. Pow2(k) |->
                     CMul(MatEntry(mat, beta, GatherBits(b, wires, n, 1), a - 1),
                          state.data[beta * Pow2(n) + ReplaceBits(b, wires, a - 1, n, 1) + 1])],
                 1, Pow2(k))
    IN  Tensor(state.shape,
               [i \in 1 .. Len(state.data) |-> entry((i - 1) \div Pow2(n), (i - 1) % Pow2(n))])

\* mat is a 2^k x 2^k matrix, or one such matrix per batch element of state.
MatFits(mat, k, state) ==
    \/ mat.shape = <<Pow2(k), Pow2(k)>>
    \/ mat.shape = <<state.shape[1], Pow2(k), Pow2(k)>>

\* The classical reversible circuits: the first wires control, the last is
\* the target (swap and cswap exchange their last two wires).
Classical(gate, w, b, n) ==
    CASE gate = "paulix" -> SetBit(b, w[1], n, 1 - Bit(b, w[1], n))
      [] gate = "cnot" ->
            IF Bit(b, w[1], n) = 1 THEN SetBit(b, w[2], n, 1 - Bit(b, w[2], n)) ELSE b
      [] gate = "swap" ->
            SetBit(SetBit(b, w[1], n, Bit(b, w[2], n)), w[2], n, Bit(b, w[1], n))
      [] gate = "toffoli" ->
            IF Bit(b, w[1], n) = 1 /\ Bit(b, w[2], n) = 1
            THEN SetBit(b, w[3], n, 1 - Bit(b, w[3], n)) ELSE b
      [] gate = "cswap" ->
            IF Bit(b, w[1], n) = 1
            THEN SetBit(SetBit(b, w[2], n, Bit(b, w[3], n)), w[3], n, Bit(b, w[2], n))
            ELSE b

\* Every batch element of t is one computational basis state.
IsBasisTensor(t) ==
    LET n == Len(t.shape) - 1
    IN  \A beta \in 0 .. t.shape[1] - 1 :
            \E b \in 0 .. Pow2(n) - 1 :
                \A c \in 0 .. Pow2(n) - 1 :
                    t.data[beta * Pow2(n) + c + 1] = IF c = b THEN COne ELSE CZero

BasisIndex(t, beta) ==
    LET n == Len(t.shape) - 1
    IN  CHOOSE b \in 0 .. Pow2(n) - 1 : t.data[beta * Pow2(n) + b + 1] = COne

\* The basis tensor the classical circuit of the gate makes of the basis tensor t.
ClassicalImage(t, gate, w) ==
    LET n == Len(t.shape) - 1
    IN  Tensor(t.shape,
               [i \in 1 .. Len(t.data) |->
                   IF (i - 1) % Pow2(n) = Classical(gate, w, BasisIndex(t, (i - 1) \div Pow2(n)), n)
                   THEN COne ELSE CZero])

\* The standard two-qubit matrices: controlled-U is the identity on the
\* control = 0 block and U on the control = 1 block; SWAP exchanges the two bits.
ControlledMatrix(u) ==
    Tensor(<<4, 4>>,
           [i \in 1 .. 16 |->
               LET r == (i - 1) \div 4
                   c == (i - 1) % 4
               IN  IF r < 2 \/ c < 2 THEN (IF r = c THEN COne ELSE CZero)
                   ELSE At(u, <<r - 2, c - 2>>)])

StandardX == ComplexMatrix(<< <<CZero, COne>>, <<COne, CZero>> >>)
StandardY == ComplexMatrix(<< <<CZero, CNeg(CI)>>, <<CI, CZero>> >>)
StandardZ == ComplexMatrix(<< <<COne, CZero>>, <<CZero, CNeg(COne)>> >>)

StandardSwap ==
    Tensor(<<4, 4>>,
           [i \in 1 .. 16 |->
               LET r == (i - 1) \div 4
                   c == (i - 1) % 4
               IN  IF c = 2 * (r % 2) + (r \div 2) THEN COne ELSE CZero])

StandardTwoQubit ==
    [cnot |-> ControlledMatrix(StandardX), cy |-> ControlledMatrix(StandardY),
     cz |-> ControlledMatrix(StandardZ), swap |-> StandardSwap]

(***************************************************************************)
(* The claims.                                                             *)
(***************************************************************************)
EinsumQubits == Len(call.state.shape) - 1

\* C1 (SpecEinsum): for distinct in-range wires in any order and a 2^k x 2^k
\* matrix (one for all batch elements, or one per batch element),
\* apply_unitary_einsum returns whenever the symbols suffice, and what it
\* returns is the identity-embedded operator applied to the state: wires[0] is
\* the most significant bit of the matrix index and the other axes keep their
\* place.
C1_EinsumIsEmbeddedOperator ==
    (/\ pc = "done"
     /\ ValidWires(call.wires, EinsumQubits)
     /\ MatFits(call.mat, Len(call.wires), call.state))
    => /\ EinsumQubits + Len(call.wires) < ABCLen => call.result.ok
       /\ call.result.ok => call.result.value = Embedded(call.state, call.mat, call.wires)

\* C1 witness: a three-qubit state to which a matrix per batch element has been
\* applied on wires given out of order.
C1_Witness ==
    /\ pc = "done"
    /\ call.result.ok
    /\ call.wires = <<2, 0>>
    /\ call.state = BasisState(3, 2, 5, 1)
    /\ call.mat = GenericBatchMatrix(2, 2)

C5_InvalidWiresRejected ==
    (pc = "done" /\ ~ValidWires(call.wires, EinsumQubits)) => ~call.result.ok

DeviceQubits == Len(old_val.shape) - 1

\* C2 (Spec): a paulix, cnot, swap, toffoli or cswap call with distinct
\* in-range wires on a device in a computational basis state succeeds and
\* leaves the basis state of the classical circuit in which the first wires
\* control and the last is the target; wire order is kept, not sorted.  On two
\* qubits CNOT[0,1] leaves |00> alone and takes |10> (X on wire 0 of |00>) to
\* |11>, and CNOT[1,0] leaves |10> alone.
C2_ClassicalCircuit ==
    (/\ pc = "done"
     /\ call.gate \in PermGates
     /\ Len(NormalizeWires(call.wires)) = Arity(call.gate)
     /\ ValidWires(NormalizeWires(call.wires), DeviceQubits)
     /\ IsBasisTensor(old_val))
    => /\ call.err = ""
       /\ heap[states] = ClassicalImage(old_val, call.gate, NormalizeWires(call.wires))
       /\ (call.gate = "cnot" /\ call.wires = ListWires(<<0, 1>>) /\ old_val = BasisState(2, 1, 0, 0))
            => heap[states] = BasisState(2, 1, 0, 0)
       /\ (call.gate = "cnot" /\ call.wires = ListWires(<<0, 1>>) /\ old_val = BasisState(2, 1, 2, 0))
            => heap[states] = BasisState(2, 1, 3, 0)
       /\ (call.gate = "cnot" /\ call.wires = ListWires(<<1, 0>>) /\ old_val = BasisState(2, 1, 2, 0))
            => heap[states] = BasisState(2, 1, 2, 0)

\* C2 witness: CNOT with wires [1, 0] has run on |01> of a two-qubit device
\* and left |11>.
C2_Witness ==
    /\ pc = "done"
    /\ call.gate = "cnot"
    /\ call.wires = ListWires(<<1, 0>>)
    /\ old_val = BasisState(2, 1, 1, 0)
    /\ heap[states] = BasisState(2, 1, 3, 0)

\* C6 (Spec): a successful call binds q_device.states to a tensor that did not
\* exist before, and the tensor the device held before the call, read through
\* the reference the caller took, holds the amplitudes it held then.
C6_StateReplacedWholesale ==
    (pc = "done" /\ call.err = "")
    => /\ states # old_ref
       /\ old_ref \in DOMAIN heap
       /\ heap[old_ref] = old_val

\* C6 witness: a call has succeeded and changed the amplitudes.
C6_Witness ==
    /\ pc = "done"
    /\ call.err = ""
    /\ call.gate = "toffoli"
    /\ heap[states] # old_val

\* C10 (Spec): a call that fails (batch-size assertion, index assertion,
\* reshape failure, index error) raises to the caller and leaves
\* q_device.states the very tensor it was, with the amplitudes it had.
C10_FailedCallLeavesDevice ==
    (pc = "done" /\ call.err # "")
    => /\ states = old_ref
       /\ heap = (old_ref :> old_val)
       /\ call.err \in {"AssertionError: batch size", "AssertionError: too many qubit",
                        "RuntimeError: reshape", "IndexError"}

\* C10 witness: a call has failed on the batch-size assertion.
C10_Witness ==
    /\ pc = "done"
    /\ call.err = "AssertionError: batch size"
    /\ states = old_ref

\* C3 (SpecRoundTrip): the matrix dispatched for cnot, cz, cy or swap is the
\* standard controlled-X, controlled-Z, controlled-Y or SWAP matrix.
C3_TwoQubitConstantsStandard ==
    (pc = "done" /\ call.gate \in DOMAIN StandardTwoQubit)
    => call.matrix = StandardTwoQubit[call.gate]

\* C7 (SpecRoundTrip): a self-inverse constant gate run twice on the same
\* wires gives back the state the device started from.
C7_RoundTripRestores ==
    (pc = "done" /\ ncalls = 2 /\ call.gate \in SelfInverseGates)
    => heap[states] = old_val

ParamRows == call.params.shape[1]

GateDim == CASE call.gate = "crx" -> 4
             [] call.gate = "multirz" -> Pow2(call.n_wires)
             [] OTHER -> 2

\* C8 as stated (SpecGen): the matrix a generator returns for B >= 1 parameter
\* rows has the shape (B, 2^k, 2^k).
C8_BatchAxisAlways ==
    (pc = "done" /\ call.gate \in CallableGates)
    => call.matrix.shape = <<ParamRows, GateDim, GateDim>>

\* C8 amended (SpecGen): for B >= 2 parameter rows the matrix has the shape
\* (B, 2^k, 2^k); for B = 1 the batch axis is squeezed away and the shape is
\* (2^k, 2^k).
C8_BatchAxisUnlessOneRow ==
    (pc = "done" /\ call.gate \in CallableGates)
    => call.matrix.shape = IF ParamRows = 1 THEN <<GateDim, GateDim>>
                           ELSE <<ParamRows, GateDim, GateDim>>

\* C8 witness: a generator has been called with one parameter row, and one
\* with two.
C8_Witness ==
    /\ pc = "done"
    /\ call.gate = "multirz"
    /\ call.n_wires = 2
    /\ ParamRows = 1
    /\ call.matrix.shape = <<4, 4>>

\* The angle of parameter row beta, as a multiple of pi.
RowAngle(beta) == call.params.data[beta + 1]

\* C9 (SpecGen): per batch element ry_matrix is the standard Y rotation,
\* M[0][0] = M[1][1] = cos(theta/2), M[0][1] = -sin(theta/2),
\* M[1][0] = sin(theta/2); and ry on a one-qubit device in the state [1, 0]
\* leaves [cos(theta/2), sin(theta/2)].
C9_RyIsStandardRotation ==
    (pc = "done" /\ call.gate = "ry" /\ call.err = "")
    => /\ \A beta \in 0 .. ParamRows - 1 :
            /\ MatEntry(call.matrix, beta, 0, 0) = Cx(CosHalf(RowAngle(beta)), 0)
            /\ MatEntry(call.matrix, beta, 1, 1) = Cx(CosHalf(RowAngle(beta)), 0)
            /\ MatEntry(call.matrix, beta, 0, 1) = Cx(-SinHalf(RowAngle(beta)), 0)
            /\ MatEntry(call.matrix, beta, 1, 0) = Cx(SinHalf(RowAngle(beta)), 0)
       /\ (DeviceQubits = 1 /\ old_val = BasisState(1, 1, 0, 0) /\ ParamRows = 1)
            => heap[states].data = <<Cx(CosHalf(RowAngle(0)), 0), Cx(SinHalf(RowAngle(0)), 0)>>

====
